---- MODULE Spec2Model ----
(***************************************************************************)
(* Stage pipeline orchestrator of youtube-auto-process:                    *)
(*   src/core/task_scheduler.py  TaskScheduler (scheduler loop, runner,    *)
(*                               stage handlers, done callback)            *)
(*   src/core/task_manager.py    TaskManager (store updates)               *)
(*   src/core/models.py          TaskModel / StageProgress (parsed view)   *)
(*   src/modules/transcriber.py  AudioTranscriber.transcribe (store writes)*)
(*                                                                         *)
(* The scheduler is one asyncio event loop.  A coroutine runs without      *)
(* interruption between two suspension points; the TaskManager methods are *)
(* coroutines over blocking pymongo calls and never suspend.  The variable *)
(* cur holds the job whose runner currently occupies the loop (0 = the     *)
(* loop is idle and may run the scheduler tick, a callback or resume a     *)
(* suspended runner).                                                      *)
(***************************************************************************)
EXTENDS Integers, Sequences, FiniteSets, TLC

\* ---------------------------------------------------------------- bounds
MaxJobs == 2            \* number of job records that can be created
MaxClock == 2           \* number of clock advances
ClockStep == 1000       \* seconds that pass in one clock advance
Priorities == {1, 9}    \* priorities drawn at creation (models.py: 1..9)
MaxConcurrent == 2      \* largest max_concurrent_tasks a scheduler is constructed with
Urls == {"url_a", "url_b"}  \* video URLs that are submitted

\* ------------------------------------------------------ program constants
max_retries == 3
ZOMBIE_TIMEOUT == 30 * 60
list_limit == 100

None == -1

JobIds == 1..MaxJobs

stage_sequence ==
  << "downloading", "transcribing", "translating", "subtitle_splitting" >>

Stages == { stage_sequence[i] : i \in 1..Len(stage_sequence) }

\* TaskStatus / StageStatus values used by the orchestrator
TaskStatus == {"pending", "processing", "paused", "completed", "failed", "cancelled"}
StageStatus == {"pending", "processing", "completed", "failed"}

VARIABLES
  docs,          \* the tasks collection: job id -> persisted document
  created,       \* ids present in the collection
  archived,      \* completed documents of earlier submissions that the collection
                 \* returns ahead of the jobs submitted later
  max_concurrent_tasks, \* TaskScheduler.max_concurrent_tasks (constructor argument)
  stop_requested, \* _cleanup has been called on this scheduler
  loop,          \* the coroutine TaskScheduler.start: "running", "backoff" (sleep after an
                 \* error in the iteration) or "ended" (the coroutine returned or raised)
  active_tasks,  \* TaskScheduler.active_tasks: sequence of job ids (dict keys, insertion order)
  runner,        \* the asyncio task of each job: pc, loop variables, its TaskModel snapshot
  cur,           \* job whose runner occupies the event loop, 0 when the loop is idle
  now,           \* wall clock, seconds
  clock_steps,   \* number of clock advances so far
  invoked,       \* per job: stages whose handler the current runner invocation has invoked
  ncalls         \* per job: handler invocations of the runner's current stage

vars == << docs, created, archived, max_concurrent_tasks, stop_requested, loop, active_tasks, runner, cur, now, clock_steps, invoked, ncalls >>

\* ------------------------------------------------------------ documents
\* A stage_progress key that was never written.
NoEntry ==
  [ status |-> "none", started_at |-> None, completed_at |-> None,
    updated_at |-> None, error |-> "", output_files |-> {} ]

\* TaskModel.timestamps as the default factory leaves it: the job-level
\* keys started_at and completed_at are None (created_at and the per-stage
\* keys are not read or written by the scheduler and are left out).
NewTimestamps == [ started_at |-> None, completed_at |-> None ]

\* TaskManager.create_task: TaskModel(video_url=video_url, status=PENDING,
\* priority=p), stage_progress = {}
NewDoc(video_url, p) ==
  [ video_url |-> video_url, status |-> "pending", priority |-> p,
    manual_resume |-> FALSE, error |-> "", updated_at |-> None,
    timestamps |-> NewTimestamps,
    stage_progress |-> [ s \in Stages |-> NoEntry ] ]

\* A slot of the collection that holds no document.
NoDoc == NewDoc("", 1)

\* Variant of update_task_status: the patch also carries the model's default
\* priority (Field(default=5)).
update_task_status_with_priority(doc, status, error, t) ==
  [ doc EXCEPT !.status = status,
               !.updated_at = t,
               !.error = IF error # "" THEN error ELSE @,
               !.priority = 5 ]

\* TaskManager.update_task_status(task_id, status, error):
\* $set status and updated_at, and error only when it is non-empty.
update_task_status(doc, status, error, t) ==
  [ doc EXCEPT !.status = status,
               !.updated_at = t,
               !.error = IF error # "" THEN error ELSE @ ]

\* The call update_task_status(..., extra={"manual_resume": True}) of the
\* runner: the extra fields are part of the same atomic patch.
update_task_status_extra(doc, status, error, t) ==
  [ update_task_status(doc, status, error, t) EXCEPT !.manual_resume = TRUE ]

\* Variant of update_stage_status: the patch names stage_progress itself
\* instead of the dotted path stage_progress.<stage>, so the other stages'
\* entries are overwritten.
update_stage_status_undotted(doc, stage, status, error, output_files, t) ==
  [ doc EXCEPT
      !.stage_progress =
         [ s \in Stages |->
             IF s = stage
             THEN [ status |-> status,
                    updated_at |-> t,
                    started_at |-> IF status = "processing" THEN t ELSE None,
                    completed_at |-> IF status \in {"completed", "failed"} THEN t ELSE None,
                    error |-> error,
                    output_files |-> output_files ]
             ELSE NoEntry ],
      !.updated_at = t ]

\* Variant of update_stage_status: the patch carries no started_at and no
\* completed_at.
update_stage_status_no_stamps(doc, stage, status, error, output_files, t) ==
  [ doc EXCEPT
      !.stage_progress[stage] =
         [ status |-> status,
           updated_at |-> t,
           started_at |-> None,
           completed_at |-> None,
           error |-> error,
           output_files |-> IF output_files # {} THEN output_files ELSE {} ],
      !.updated_at = t ]

\* TaskManager.update_stage_status: $set of the WHOLE sub-document
\* stage_progress.<stage>, so fields not in the patch are dropped.
update_stage_status(doc, stage, status, error, output_files, t) ==
  [ doc EXCEPT
      !.stage_progress[stage] =
         [ status |-> status,
           updated_at |-> t,
           started_at |-> IF status = "processing" THEN t ELSE None,
           completed_at |-> IF status \in {"completed", "failed"} THEN t ELSE None,
           error |-> error,
           output_files |-> IF output_files # {} THEN output_files ELSE {} ],
      !.updated_at = t ]

\* StageProgress(**entry): the declared fields only; updated_at is not a
\* field of StageProgress and is dropped when the document is parsed.
StageProgress(e) ==
  [ status |-> e.status, started_at |-> e.started_at,
    completed_at |-> e.completed_at, error |-> e.error,
    output_files |-> e.output_files ]

\* TaskModel(**doc)
TaskModel(id, doc) ==
  [ id |-> id, video_url |-> doc.video_url, status |-> doc.status,
    priority |-> doc.priority, manual_resume |-> doc.manual_resume,
    error |-> doc.error, timestamps |-> doc.timestamps,
    stage_progress |-> [ s \in Stages |-> StageProgress(doc.stage_progress[s]) ] ]

\* task_manager.get_task_by_id(task.id): fetch and parse the current document
get_task_by_id(id) == TaskModel(id, docs[id])

\* getattr(progress, 'updated_at', None) on a parsed StageProgress
progress_updated_at(progress) ==
  IF "updated_at" \in DOMAIN progress THEN progress.updated_at ELSE None

\* ------------------------------------------------------- asyncio tasks
NoTask == TaskModel(0, NoDoc)

\* stale: the done callback of an earlier asyncio task of the same job is
\* still to be called
NoRunner == [ pc |-> "none", i |-> 0, attempt |-> 0, task |-> NoTask, stale |-> FALSE ]

Min(a, b) == IF a < b THEN a ELSE b

\* dict.pop(task_id, None) on the ordered keys of active_tasks
Pop(seq, id) == SelectSeq(seq, LAMBDA x : x # id)

InFlight == { active_tasks[k] : k \in 1..Len(active_tasks) }

\* output_files keys each handler returns
Outputs(stage) ==
  CASE stage = "downloading" -> {"video_path", "thumbnail_path"}
    [] stage = "transcribing" -> {"subtitle_path"}
    [] stage = "translating" -> {"translated_subtitle_path"}
    [] stage = "subtitle_splitting" ->
         {"split_subtitle_path", "split_translated_subtitle_path"}

\* Variant of Required: no handler looks at the stages before its own.
Required_none(stage) == {}

\* stages a handler requires to be completed in the task it was handed
Required(stage) ==
  CASE stage = "downloading" -> {}
    [] stage = "transcribing" -> {"downloading"}
    [] stage = "translating" -> {"transcribing"}
    [] stage = "subtitle_splitting" -> {"transcribing", "translating"}

\* what a handler body can do once its stage is marked processing:
\*   "suspend" it awaits external work, "ok" it returns success without
\*   suspending, "raise" an exception reaches the handler's except clause,
\*   "none" AudioTranscriber.transcribe caught its own failure.
Outcomes(stage) ==
  CASE stage = "downloading" -> {"suspend", "raise"}
    [] stage = "transcribing" -> {"ok", "none", "raise"}
    [] stage = "translating" -> {"suspend", "ok", "raise"}
    [] stage = "subtitle_splitting" -> {"ok", "raise"}

\* ------------------------------------------------------------- Init
\* TaskScheduler.__init__ on a store holding n completed documents
ConstructedOn(n) ==
  /\ docs = [ id \in JobIds |-> NoDoc ]
  /\ created = {}
  /\ archived = n
  /\ stop_requested = FALSE
  /\ loop = "running"
  /\ active_tasks = << >>
  /\ runner = [ id \in JobIds |-> NoRunner ]
  /\ cur = 0
  /\ now = 0
  /\ clock_steps = 0
  /\ invoked = [ id \in JobIds |-> {} ]
  /\ ncalls = [ id \in JobIds |-> 0 ]

\* TaskScheduler.__init__ on a store with no documents
Constructed == ConstructedOn(0)

Init == Constructed /\ max_concurrent_tasks \in 1..MaxConcurrent

InitSolo == Init

InitPair == Constructed /\ max_concurrent_tasks = 1

\* ------------------------------------------------------ environment
\* TaskManager.create_task (CLI "create"): insert a pending document.
create_task(video_url, p) ==
  /\ created # JobIds
  /\ LET id == CHOOSE x \in JobIds \ created : \A y \in JobIds \ created : x <= y
     IN /\ docs' = [ docs EXCEPT ![id] = NewDoc(video_url, p) ]
        /\ created' = created \cup {id}
  /\ UNCHANGED << archived, max_concurrent_tasks, loop, stop_requested, active_tasks, runner, cur, now, clock_steps, invoked, ncalls >>

\* The operator clears manual_resume of a job (operator boundary).
OperatorResume(id) ==
  /\ id \in created
  /\ docs[id].manual_resume
  /\ docs' = [ docs EXCEPT ![id].manual_resume = FALSE ]
  /\ UNCHANGED << archived, max_concurrent_tasks, loop, stop_requested, created, active_tasks, runner, cur, now, clock_steps, invoked, ncalls >>

\* A writer outside the orchestrator (the collection is shared with other
\* tooling) sets the progress entry of a completed stage back to pending.
\* It is another process: the write can fall between any two steps.
ExternalEdit(id, stage) ==
  /\ id \in created
  /\ docs[id].stage_progress[stage].status = "completed"
  /\ docs' = [ docs EXCEPT ![id].stage_progress[stage] =
                 [ NoEntry EXCEPT !.status = "pending" ] ]
  /\ UNCHANGED << archived, max_concurrent_tasks, loop, stop_requested, created, active_tasks, runner, cur, now, clock_steps, invoked, ncalls >>

\* ----------------------------------------------------- scheduler loop
\* Orders in which list_tasks can return the documents: the query sorts on
\* a top-level created_at that documents do not have, so the order of the
\* result is left to the store.
ListOrders ==
  { f \in [ 1..Cardinality(created) -> created ] :
      \A a, b \in 1..Cardinality(created) : a # b => f[a] # f[b] }

\* TaskManager.list_tasks(limit=100): parsed documents, at most limit, with
\* no filter on the status; the archived documents take their places
list_tasks(order) ==
  [ k \in 1..Min(list_limit - Min(list_limit, archived), Len(order))
      |-> TaskModel(order[k], docs[order[k]]) ]

\* zombie detection of the tick: stages in processing whose updated_at, as
\* read from the parsed StageProgress, is older than ZOMBIE_TIMEOUT
ZombieStages(tasks, t) ==
  { z \in (1..Len(tasks)) \X Stages :
      LET progress == tasks[z[1]].stage_progress[z[2]]
          updated_at == progress_updated_at(progress)
      IN /\ progress.status = "processing"
         /\ updated_at # None
         /\ t - updated_at > ZOMBIE_TIMEOUT }

\* Variant of IsCandidate: the manual_resume flag is not looked at.
IsCandidate_any_flag(t) == t.status \in {"pending", "failed"}

\* Variant of IsCandidate: every job that is not completed is a candidate.
IsCandidate_not_completed(t) == t.status # "completed" /\ ~t.manual_resume

\* candidate filter of the tick
IsCandidate(t) == t.status \in {"pending", "failed"} /\ ~t.manual_resume

\* Variant of SortByPriority: the candidates stay in list order.
SortByPriority_unsorted(seq) == seq

\* candidate_tasks.sort(key=priority, reverse=True): stable, descending
RECURSIVE SortByPriority(_)
SortByPriority(seq) ==
  IF seq = << >> THEN << >>
  ELSE LET m == CHOOSE a \in 1..Len(seq) :
                  /\ \A b \in 1..Len(seq) : seq[a].priority >= seq[b].priority
                  /\ \A b \in 1..(a - 1) : seq[b].priority # seq[a].priority
           rest == [ k \in 1..(Len(seq) - 1) |-> IF k < m THEN seq[k] ELSE seq[k + 1] ]
       IN << seq[m] >> \o SortByPriority(rest)

\* Variant of Slice: every candidate is taken.
Slice_all(sorted) == sorted

\* candidate_tasks[: max_concurrent_tasks - len(active_tasks)]
Slice(sorted) ==
  SubSeq(sorted, 1, Min(max_concurrent_tasks - Len(active_tasks), Len(sorted)))

\* Variant of Selected: no test for membership in active_tasks.
Selected_unfiltered(tasks) ==
  LET candidate_tasks == SelectSeq(tasks, IsCandidate)
  IN IF Len(active_tasks) < max_concurrent_tasks /\ candidate_tasks # << >>
     THEN Slice(SortByPriority(candidate_tasks))
     ELSE << >>

\* the tasks of the slice that are spawned: those not in active_tasks
Selected(tasks) ==
  LET candidate_tasks == SelectSeq(tasks, IsCandidate)
  IN IF Len(active_tasks) < max_concurrent_tasks /\ candidate_tasks # << >>
     THEN SelectSeq(Slice(SortByPriority(candidate_tasks)),
                    LAMBDA t : t.id \notin InFlight)
     ELSE << >>

\* One iteration of TaskScheduler.start.  It runs when the loop is idle, and
\* a runner created by the previous iteration has had its first step by
\* then (create_task schedules it before the tick's sleep expires).  The
\* tick reads the wall clock (now = datetime.now()): since the previous
\* reading either a negligible time or ClockStep seconds have passed; the
\* store writes that follow are stamped with this reading.
Tick ==
  /\ cur = 0
  /\ loop # "ended"
  /\ \A id \in JobIds : runner[id].pc # "new"
  /\ \/ UNCHANGED << now, clock_steps >>
     \/ /\ clock_steps < MaxClock
        /\ now' = now + ClockStep
        /\ clock_steps' = clock_steps + 1
  /\ \E order \in ListOrders :
       LET tasks == list_tasks(order)
           zombies == ZombieStages(tasks, now')
           sel == Selected(tasks)
           ids == [ k \in 1..Len(sel) |-> sel[k].id ]
           spawned == { ids[k] : k \in 1..Len(ids) }
       IN IF zombies # {}
          THEN \* update_stage_status(status='pending') raises on status.value;
               \* the except clause of the loop skips the dispatch
               /\ loop' = "backoff"
               /\ UNCHANGED << active_tasks, runner, invoked, ncalls >>
          ELSE /\ loop' = "running"
               /\ active_tasks' = active_tasks \o ids
               /\ runner' = [ id \in JobIds |->
                    IF id \in spawned
                    THEN [ pc |-> "new", i |-> 0, attempt |-> 0,
                           task |-> TaskModel(id, docs[id]),
                           stale |-> runner[id].stale \/ runner[id].pc = "done" ]
                    ELSE runner[id] ]
               /\ invoked' = [ id \in JobIds |->
                    IF id \in spawned THEN {} ELSE invoked[id] ]
               /\ ncalls' = [ id \in JobIds |->
                    IF id \in spawned THEN 0 ELSE ncalls[id] ]
  /\ UNCHANGED << archived, max_concurrent_tasks, stop_requested, docs, created, cur >>

\* Variant of TickError: the exception is not caught inside the while loop
\* and ends the coroutine.
TickError_escapes ==
  /\ cur = 0
  /\ loop # "ended"
  /\ \A id \in JobIds : runner[id].pc # "new"
  /\ loop' = "ended"
  /\ UNCHANGED << archived, max_concurrent_tasks, stop_requested, docs, created, active_tasks, runner, cur, now, clock_steps, invoked, ncalls >>

\* An iteration of TaskScheduler.start in which list_tasks raises (the
\* store cannot be reached, PyMongoError): the except Exception clause
\* inside the while loop logs it and sleeps 5 seconds instead of 1; the
\* loop condition is tested again afterwards.
TickError ==
  /\ cur = 0
  /\ loop # "ended"
  /\ \A id \in JobIds : runner[id].pc # "new"
  /\ loop' = "backoff"
  /\ UNCHANGED << archived, max_concurrent_tasks, stop_requested, docs, created, active_tasks, runner, cur, now, clock_steps, invoked, ncalls >>

\* Variant of _task_done_callback: the key is not popped from active_tasks.
_task_done_callback_no_pop(id) ==
  /\ cur = 0
  /\ runner[id].pc = "done"
  /\ ~runner[id].stale
  /\ runner' = [ runner EXCEPT ![id] = NoRunner ]
  /\ invoked' = [ invoked EXCEPT ![id] = {} ]
  /\ ncalls' = [ ncalls EXCEPT ![id] = 0 ]
  /\ UNCHANGED << archived, max_concurrent_tasks, loop, stop_requested, docs, created, active_tasks, cur, now, clock_steps >>

\* TaskScheduler._task_done_callback
_task_done_callback(id) ==
  /\ cur = 0
  /\ runner[id].pc = "done"
  /\ ~runner[id].stale
  /\ active_tasks' = Pop(active_tasks, id)
  /\ runner' = [ runner EXCEPT ![id] = NoRunner ]
  /\ invoked' = [ invoked EXCEPT ![id] = {} ]
  /\ ncalls' = [ ncalls EXCEPT ![id] = 0 ]
  /\ UNCHANGED << archived, max_concurrent_tasks, loop, stop_requested, docs, created, cur, now, clock_steps >>

\* ------------------------------------------------------- stage runner
CurStage(id) == stage_sequence[runner[id].i]

\* The runner of job id leaves the event loop as a finished asyncio task.
Terminate(id, doc) ==
  /\ docs' = [ docs EXCEPT ![id] = doc ]
  /\ runner' = [ runner EXCEPT ![id] =
                   [ NoRunner EXCEPT !.pc = "done", !.stale = runner[id].stale ] ]
  /\ cur' = 0

\* except Exception of _process_task (line 147-149)
JobException(id, doc) ==
  Terminate(id, update_task_status_extra(doc, "failed", "exception", now))

\* Variant of HandlerReturned: the retry loop runs one attempt too many
\* (range(1, max_retries + 2)).
HandlerReturned_one_more(id, doc, success, outputs) ==
  IF success
  THEN /\ docs' = [ docs EXCEPT ![id] =
             update_stage_status(doc, CurStage(id), "completed", "", outputs, now) ]
       /\ runner' = [ runner EXCEPT
             ![id].pc = IF runner[id].i < Len(stage_sequence) THEN "fetch" ELSE "finish",
             ![id].i = IF runner[id].i < Len(stage_sequence) THEN @ + 1 ELSE @ ]
       /\ cur' = id
  ELSE IF runner[id].attempt < max_retries + 1
       THEN /\ docs' = [ docs EXCEPT ![id] = doc ]
            /\ runner' = [ runner EXCEPT ![id].pc = "sleep" ]
            /\ cur' = 0
       ELSE Terminate(id, update_task_status_extra(doc, "failed", "", now))

\* Variant of HandlerReturned: the else branch of the retry loop also runs
\* when the last allowed attempt succeeded (no break before it).
HandlerReturned_else_always(id, doc, success, outputs) ==
  IF success /\ runner[id].attempt < max_retries
  THEN /\ docs' = [ docs EXCEPT ![id] =
             update_stage_status(doc, CurStage(id), "completed", "", outputs, now) ]
       /\ runner' = [ runner EXCEPT
             ![id].pc = IF runner[id].i < Len(stage_sequence) THEN "fetch" ELSE "finish",
             ![id].i = IF runner[id].i < Len(stage_sequence) THEN @ + 1 ELSE @ ]
       /\ cur' = id
  ELSE IF success
       THEN Terminate(id, update_task_status_extra(
                update_stage_status(doc, CurStage(id), "completed", "", outputs, now),
                "failed", "", now))
  ELSE IF runner[id].attempt < max_retries
       THEN /\ docs' = [ docs EXCEPT ![id] = doc ]
            /\ runner' = [ runner EXCEPT ![id].pc = "sleep" ]
            /\ cur' = 0
       ELSE Terminate(id, update_task_status_extra(doc, "failed", "", now))

\* Variant of HandlerReturned: no return after the retries are exhausted,
\* the stage loop goes on with the next stage.
HandlerReturned_no_return(id, doc, success, outputs) ==
  IF success
  THEN /\ docs' = [ docs EXCEPT ![id] =
             update_stage_status(doc, CurStage(id), "completed", "", outputs, now) ]
       /\ runner' = [ runner EXCEPT
             ![id].pc = IF runner[id].i < Len(stage_sequence) THEN "fetch" ELSE "finish",
             ![id].i = IF runner[id].i < Len(stage_sequence) THEN @ + 1 ELSE @ ]
       /\ cur' = id
  ELSE IF runner[id].attempt < max_retries
       THEN /\ docs' = [ docs EXCEPT ![id] = doc ]
            /\ runner' = [ runner EXCEPT ![id].pc = "sleep" ]
            /\ cur' = 0
       ELSE /\ docs' = [ docs EXCEPT ![id] =
                  update_task_status_extra(doc, "failed", "", now) ]
            /\ runner' = [ runner EXCEPT
                  ![id].pc = IF runner[id].i < Len(stage_sequence) THEN "fetch" ELSE "finish",
                  ![id].i = IF runner[id].i < Len(stage_sequence) THEN @ + 1 ELSE @ ]
            /\ cur' = id

\* Variant of HandlerReturned: the escalation writes the status alone;
\* manual_resume is left for a later update.
HandlerReturned_status_only(id, doc, success, outputs) ==
  IF success
  THEN /\ docs' = [ docs EXCEPT ![id] =
             update_stage_status(doc, CurStage(id), "completed", "", outputs, now) ]
       /\ runner' = [ runner EXCEPT
             ![id].pc = IF runner[id].i < Len(stage_sequence) THEN "fetch" ELSE "finish",
             ![id].i = IF runner[id].i < Len(stage_sequence) THEN @ + 1 ELSE @ ]
       /\ cur' = id
  ELSE IF runner[id].attempt < max_retries
       THEN /\ docs' = [ docs EXCEPT ![id] = doc ]
            /\ runner' = [ runner EXCEPT ![id].pc = "sleep" ]
            /\ cur' = 0
       ELSE Terminate(id, update_task_status(doc, "failed", "", now))

\* The retry loop of _process_task after the handler returned
\* (success, outputs); doc is the document as the handler left it.
HandlerReturned(id, doc, success, outputs) ==
  IF success
  THEN \* update_stage_status(COMPLETED, output_files=outputs); break
       /\ docs' = [ docs EXCEPT ![id] =
             update_stage_status(doc, CurStage(id), "completed", "", outputs, now) ]
       /\ runner' = [ runner EXCEPT
             ![id].pc = IF runner[id].i < Len(stage_sequence) THEN "fetch" ELSE "finish",
             ![id].i = IF runner[id].i < Len(stage_sequence) THEN @ + 1 ELSE @ ]
       /\ cur' = id
  ELSE IF runner[id].attempt < max_retries
       THEN \* await asyncio.sleep(3)
            /\ docs' = [ docs EXCEPT ![id] = doc ]
            /\ runner' = [ runner EXCEPT ![id].pc = "sleep" ]
            /\ cur' = 0
       ELSE \* for ... else: retries exhausted
            Terminate(id, update_task_status_extra(doc, "failed", "", now))

\* Variant of HandlerFailed: the FAILED update carries the output files of
\* the stage.
HandlerFailed_with_outputs(id, doc) ==
  HandlerReturned(id,
     update_stage_status(doc, CurStage(id), "failed", "handler error",
                         Outputs(CurStage(id)), now),
     FALSE, {})

\* The except clause of a stage handler: stage FAILED with the error
HandlerFailed(id, doc) ==
  HandlerReturned(id,
     update_stage_status(doc, CurStage(id), "failed", "handler error", {}, now),
     FALSE, {})

\* First step of _process_task: mkdir of the work directory, then
\* update_task_status(PROCESSING).
StartRunner(id) ==
  /\ cur = 0
  /\ runner[id].pc = "new"
  /\ ~runner[id].stale
  /\ \/ /\ docs' = [ docs EXCEPT ![id] =
               update_task_status(docs[id], "processing", "", now) ]
        /\ runner' = [ runner EXCEPT ![id].pc = "fetch", ![id].i = 1 ]
        /\ cur' = id
     \/ \* task_dir.mkdir raises OSError
        JobException(id, docs[id])
  /\ UNCHANGED << archived, max_concurrent_tasks, loop, stop_requested, created, active_tasks, now, clock_steps, invoked, ncalls >>

\* Variant of FetchStage: a completed stage is not skipped.
FetchStage_no_skip(id) ==
  /\ cur = id
  /\ runner[id].pc = "fetch"
  /\ runner' = [ runner EXCEPT ![id].task = get_task_by_id(id),
                               ![id].pc = "call",
                               ![id].attempt = 1 ]
  /\ ncalls' = [ ncalls EXCEPT ![id] = 0 ]
  /\ UNCHANGED << archived, max_concurrent_tasks, loop, stop_requested, docs, created, active_tasks, cur, now, clock_steps, invoked >>

\* Variant of FetchStage: a completed stage ends the stage loop (break
\* instead of continue).
FetchStage_break(id) ==
  /\ cur = id
  /\ runner[id].pc = "fetch"
  /\ LET task == get_task_by_id(id)
     IN runner' = [ runner EXCEPT
          ![id].task = task,
          ![id].pc = IF task.stage_progress[CurStage(id)].status = "completed"
                     THEN "finish" ELSE "call",
          ![id].attempt = IF task.stage_progress[CurStage(id)].status = "completed"
                          THEN @ ELSE 1 ]
  /\ ncalls' = [ ncalls EXCEPT ![id] = 0 ]
  /\ UNCHANGED << archived, max_concurrent_tasks, loop, stop_requested, docs, created, active_tasks, cur, now, clock_steps, invoked >>

\* Variant of FetchStage: the attempt counter is not started again for the
\* next stage (one counter for the whole runner invocation).
FetchStage_shared_budget(id) ==
  /\ cur = id
  /\ runner[id].pc = "fetch"
  /\ LET task == get_task_by_id(id)
         last == runner[id].i = Len(stage_sequence)
     IN runner' = [ runner EXCEPT
          ![id].task = task,
          ![id].pc = IF task.stage_progress[CurStage(id)].status = "completed"
                     THEN IF last THEN "finish" ELSE "fetch"
                     ELSE "call",
          ![id].i = IF task.stage_progress[CurStage(id)].status = "completed" /\ ~last
                    THEN @ + 1 ELSE @,
          ![id].attempt = IF @ = 0 THEN 1 ELSE @ ]
  /\ ncalls' = [ ncalls EXCEPT ![id] = 0 ]
  /\ UNCHANGED << archived, max_concurrent_tasks, loop, stop_requested, docs, created, active_tasks, cur, now, clock_steps, invoked >>

\* Top of the stage loop: refresh the task, skip a completed stage.
FetchStage(id) ==
  /\ cur = id
  /\ runner[id].pc = "fetch"
  /\ LET task == get_task_by_id(id)
         last == runner[id].i = Len(stage_sequence)
     IN runner' = [ runner EXCEPT
          ![id].task = task,
          ![id].pc = IF task.stage_progress[CurStage(id)].status = "completed"
                     THEN IF last THEN "finish" ELSE "fetch"
                     ELSE "call",
          ![id].i = IF task.stage_progress[CurStage(id)].status = "completed" /\ ~last
                    THEN @ + 1 ELSE @,
          ![id].attempt = IF task.stage_progress[CurStage(id)].status = "completed"
                          THEN @ ELSE 1 ]
  /\ ncalls' = [ ncalls EXCEPT ![id] = 0 ]
  /\ UNCHANGED << archived, max_concurrent_tasks, loop, stop_requested, docs, created, active_tasks, cur, now, clock_steps, invoked >>

\* AudioTranscriber.transcribe succeeded: it writes the stage COMPLETED itself
TranscribeOk(doc) ==
  update_stage_status(doc, "transcribing", "completed", "", {"subtitle_path"}, now)

\* AudioTranscriber.transcribe caught an exception: job status FAILED
TranscribeFailed(doc) ==
  update_task_status(doc, "failed", "transcribe failed", now)

\* One invocation of stage_handlers[stage](task, task_dir), up to its
\* first suspension point or its return.
CallHandler(id) ==
  /\ cur = id
  /\ runner[id].pc = "call"
  /\ LET stage == CurStage(id)
         task == runner[id].task
         progress == task.stage_progress[stage]
         started == update_stage_status(docs[id], stage, "processing", "", {}, now)
     IN /\ invoked' = [ invoked EXCEPT ![id] = @ \cup {stage} ]
        /\ ncalls' = [ ncalls EXCEPT ![id] = @ + 1 ]
        /\ IF progress.status = "completed"
           THEN HandlerReturned(id, docs[id], TRUE, progress.output_files)
           ELSE IF \E q \in Required(stage) : task.stage_progress[q].status # "completed"
           THEN \* raise RuntimeError: propagates to _process_task
                JobException(id, docs[id])
           ELSE \E o \in Outcomes(stage) :
                  CASE o = "suspend" ->
                         /\ docs' = [ docs EXCEPT ![id] = started ]
                         /\ runner' = [ runner EXCEPT ![id].pc = "await" ]
                         /\ cur' = 0
                    [] o = "ok" ->
                         HandlerReturned(id,
                            IF stage = "transcribing" THEN TranscribeOk(started) ELSE started,
                            TRUE, Outputs(stage))
                    [] o = "none" ->
                         HandlerReturned(id, TranscribeFailed(started), FALSE, {})
                    [] o = "raise" -> HandlerFailed(id, started)
  /\ UNCHANGED << archived, max_concurrent_tasks, loop, stop_requested, created, active_tasks, now, clock_steps >>

\* The awaited work of a handler (download, translation request) finished.
ResumeHandler(id) ==
  /\ cur = 0
  /\ runner[id].pc = "await"
  /\ \/ HandlerReturned(id, docs[id], TRUE, Outputs(CurStage(id)))
     \/ HandlerFailed(id, docs[id])
  /\ UNCHANGED << archived, max_concurrent_tasks, loop, stop_requested, created, active_tasks, now, clock_steps, invoked, ncalls >>

\* asyncio.sleep(3) between two attempts is over: next attempt
WakeRunner(id) ==
  /\ cur = 0
  /\ runner[id].pc = "sleep"
  /\ runner' = [ runner EXCEPT ![id].pc = "call", ![id].attempt = @ + 1 ]
  /\ cur' = id
  /\ UNCHANGED << archived, max_concurrent_tasks, loop, stop_requested, docs, created, active_tasks, now, clock_steps, invoked, ncalls >>

\* All stages done: update_task_status(COMPLETED)
FinishRunner(id) ==
  /\ cur = id
  /\ runner[id].pc = "finish"
  /\ Terminate(id, update_task_status(docs[id], "completed", "", now))
  /\ UNCHANGED << archived, max_concurrent_tasks, loop, stop_requested, created, active_tasks, now, clock_steps, invoked, ncalls >>

\* Variant of Cancelled: CancelledError is handled like an Exception, by the
\* except clause of the handler and by the one of _process_task.
Cancelled_as_exception(id, doc) ==
  update_task_status_extra(
    IF runner[id].pc = "await"
    THEN update_stage_status(doc, CurStage(id), "failed", "handler error", {}, now)
    ELSE doc,
    "failed", "exception", now)

\* The document of job id after its runner was cancelled at a suspension
\* point: CancelledError is not an Exception, so neither the handler's
\* except clause nor the one of _process_task (line 147) runs, and the
\* finally clause only removes files.
Cancelled(id, doc) == doc

\* The service is interrupted and started again (main.py: Ctrl+C ends
\* asyncio.run, which cancels the scheduler loop and every runner at its
\* suspension point; CancelledError is not an Exception, so neither a
\* handler nor _process_task writes to the store).  The next start
\* constructs a new TaskScheduler over the same collection.
Restart ==
  /\ cur = 0
  /\ \E id \in JobIds : runner[id].pc # "none"
  /\ docs' = [ id \in JobIds |->
       IF runner[id].pc \in {"new", "await", "sleep"}
       THEN Cancelled(id, docs[id]) ELSE docs[id] ]
  /\ active_tasks' = << >>
  /\ stop_requested' = FALSE
  /\ loop' = "running"
  /\ runner' = [ id \in JobIds |-> NoRunner ]
  /\ invoked' = [ id \in JobIds |-> {} ]
  /\ ncalls' = [ id \in JobIds |-> 0 ]
  /\ UNCHANGED << archived, max_concurrent_tasks, created, cur, now, clock_steps >>

\* an asyncio task of the job that has not finished
NotDone(id) == runner[id].pc \in {"new", "await", "sleep"}

\* TaskScheduler._cleanup: the loop over active_tasks skips finished tasks,
\* cancels the first unfinished one and awaits it.  The cancelled task's
\* done callback pops its key from active_tasks before _cleanup resumes, so
\* the next step of the iteration raises RuntimeError (dictionary changed
\* size during iteration): the remaining tasks are not cancelled and
\* active_tasks.clear() is not reached.  Without an unfinished task the
\* loop ends and active_tasks is cleared, while the done callbacks of the
\* finished tasks are still to be called.  _stop_event is not set.
_cleanup ==
  /\ cur = 0
  /\ stop_requested' = TRUE
  /\ IF \E k \in 1..Len(active_tasks) : NotDone(active_tasks[k])
     THEN LET k == CHOOSE a \in 1..Len(active_tasks) :
                     /\ NotDone(active_tasks[a])
                     /\ \A b \in 1..(a - 1) : ~NotDone(active_tasks[b])
              id == active_tasks[k]
          IN /\ docs' = [ docs EXCEPT ![id] = Cancelled(id, docs[id]) ]
             /\ runner' = [ runner EXCEPT ![id] = NoRunner ]
             /\ active_tasks' = Pop(active_tasks, id)
             /\ invoked' = [ invoked EXCEPT ![id] = {} ]
             /\ ncalls' = [ ncalls EXCEPT ![id] = 0 ]
     ELSE /\ active_tasks' = << >>
          /\ UNCHANGED << docs, runner, invoked, ncalls >>
  /\ UNCHANGED << archived, max_concurrent_tasks, loop, created, cur, now, clock_steps >>

\* _task_done_callback of a finished task whose key _cleanup cleared and
\* the tick has since given to a new task of the same job: pop(task_id)
\* removes the new task's entry.  The callback was scheduled before the new
\* task's first step.
StaleCallback(id) ==
  /\ cur = 0
  /\ runner[id].stale
  /\ active_tasks' = Pop(active_tasks, id)
  /\ runner' = [ runner EXCEPT ![id].stale = FALSE ]
  /\ UNCHANGED << archived, max_concurrent_tasks, loop, stop_requested, docs, created, cur, now, clock_steps, invoked, ncalls >>

Next ==
  \/ \E u \in Urls : \E p \in Priorities : create_task(u, p)
  \/ \E id \in JobIds : OperatorResume(id)
  \/ Tick
  \/ \E id \in JobIds : _task_done_callback(id)
  \/ \E id \in JobIds : StartRunner(id)
  \/ \E id \in JobIds : FetchStage(id)
  \/ \E id \in JobIds : CallHandler(id)
  \/ \E id \in JobIds : ResumeHandler(id)
  \/ \E id \in JobIds : WakeRunner(id)
  \/ \E id \in JobIds : FinishRunner(id)
  \/ Restart
  \/ _cleanup
  \/ \E id \in JobIds : StaleCallback(id)
  \/ TickError

Spec == Init /\ [][Next]_vars

\* The URL has no influence on the scheduler: where the claims checked are
\* not about it, one URL is submitted.
OneUrl == "url_a"

\* A single submitted job, the clock running.
NextSolo ==
  \/ \E p \in Priorities : created = {} /\ create_task(OneUrl, p)
  \/ \E id \in JobIds : OperatorResume(id)
  \/ Tick
  \/ \E id \in JobIds : _task_done_callback(id)
  \/ \E id \in JobIds : StartRunner(id)
  \/ \E id \in JobIds : FetchStage(id)
  \/ \E id \in JobIds : CallHandler(id)
  \/ \E id \in JobIds : ResumeHandler(id)
  \/ \E id \in JobIds : WakeRunner(id)
  \/ \E id \in JobIds : FinishRunner(id)
  \/ Restart

SpecSolo == InitSolo /\ [][NextSolo]_vars

\* Several submitted jobs, within a time span that is short against
\* ZOMBIE_TIMEOUT (every clock reading is the same).
NextPair ==
  \/ \E p \in Priorities : create_task(OneUrl, p)
  \/ \E id \in JobIds : OperatorResume(id)
  \/ Tick /\ now' = now
  \/ \E id \in JobIds : _task_done_callback(id)
  \/ \E id \in JobIds : StartRunner(id)
  \/ \E id \in JobIds : FetchStage(id)
  \/ \E id \in JobIds : CallHandler(id)
  \/ \E id \in JobIds : ResumeHandler(id)
  \/ \E id \in JobIds : WakeRunner(id)
  \/ \E id \in JobIds : FinishRunner(id)
  \/ Restart

SpecPair == InitPair /\ [][NextPair]_vars

\* Two slots and several submitted jobs, every clock reading the same.
InitDuo == Constructed /\ max_concurrent_tasks = MaxConcurrent

\* The service runs without interruption and no job is resumed by hand.
NextDuo ==
  \/ \E u \in Urls : \E p \in Priorities : create_task(u, p)
  \/ Tick /\ now' = now
  \/ \E id \in JobIds : _task_done_callback(id)
  \/ \E id \in JobIds : StartRunner(id)
  \/ \E id \in JobIds : FetchStage(id)
  \/ \E id \in JobIds : CallHandler(id)
  \/ \E id \in JobIds : ResumeHandler(id)
  \/ \E id \in JobIds : WakeRunner(id)
  \/ \E id \in JobIds : FinishRunner(id)

SpecDuo == InitDuo /\ [][NextDuo]_vars

\* One or two slots and a finite set of submitted jobs, on a store that may
\* hold the documents of earlier submissions; the service runs
\* without interruption, no handler is cancelled and no job is resumed by
\* hand.
NextRun ==
  \/ \E p \in Priorities : create_task(OneUrl, p)
  \/ Tick /\ now' = now
  \/ \E id \in JobIds : _task_done_callback(id)
  \/ \E id \in JobIds : StartRunner(id)
  \/ \E id \in JobIds : FetchStage(id)
  \/ \E id \in JobIds : CallHandler(id)
  \/ \E id \in JobIds : ResumeHandler(id)
  \/ \E id \in JobIds : WakeRunner(id)
  \/ \E id \in JobIds : FinishRunner(id)

\* the store is empty, or holds list_limit completed documents
InitRun ==
  /\ \E n \in {0, list_limit} : ConstructedOn(n)
  /\ max_concurrent_tasks \in 1..MaxConcurrent

SpecRun == InitRun /\ [][NextRun]_vars

\* A single submitted job on a scheduler whose _cleanup may be called.
NextStop ==
  \/ \E p \in Priorities : created = {} /\ create_task(OneUrl, p)
  \/ \E id \in JobIds : OperatorResume(id)
  \/ Tick
  \/ \E id \in JobIds : _task_done_callback(id)
  \/ \E id \in JobIds : StartRunner(id)
  \/ \E id \in JobIds : FetchStage(id)
  \/ \E id \in JobIds : CallHandler(id)
  \/ \E id \in JobIds : ResumeHandler(id)
  \/ \E id \in JobIds : WakeRunner(id)
  \/ \E id \in JobIds : FinishRunner(id)
  \/ Restart
  \/ _cleanup
  \/ \E id \in JobIds : StaleCallback(id)

SpecStop == InitSolo /\ [][NextStop]_vars

\* A single submitted job whose document is also written from outside.
NextEdited ==
  \/ \E p \in Priorities : created = {} /\ create_task(OneUrl, p)
  \/ \E id \in JobIds : \E stage \in Stages : ExternalEdit(id, stage)
  \/ Tick /\ now' = now
  \/ \E id \in JobIds : _task_done_callback(id)
  \/ \E id \in JobIds : StartRunner(id)
  \/ \E id \in JobIds : FetchStage(id)
  \/ \E id \in JobIds : CallHandler(id)
  \/ \E id \in JobIds : ResumeHandler(id)
  \/ \E id \in JobIds : WakeRunner(id)
  \/ \E id \in JobIds : FinishRunner(id)

SpecEdited == InitSolo /\ [][NextEdited]_vars

\* A single submitted job on a store that can fail to answer list_tasks.
NextFaulty ==
  \/ \E p \in Priorities : created = {} /\ create_task(OneUrl, p)
  \/ \E id \in JobIds : OperatorResume(id)
  \/ Tick
  \/ TickError
  \/ \E id \in JobIds : _task_done_callback(id)
  \/ \E id \in JobIds : StartRunner(id)
  \/ \E id \in JobIds : FetchStage(id)
  \/ \E id \in JobIds : CallHandler(id)
  \/ \E id \in JobIds : ResumeHandler(id)
  \/ \E id \in JobIds : WakeRunner(id)
  \/ \E id \in JobIds : FinishRunner(id)
  \/ Restart

SpecFaulty == InitSolo /\ [][NextFaulty]_vars

TypeOK ==
  /\ created \subseteq JobIds
  /\ archived \in 0..list_limit
  /\ InFlight \subseteq created
  /\ cur \in 0..MaxJobs
  /\ \A id \in JobIds : docs[id].status \in TaskStatus

\* Fairness of the event loop: the scheduler keeps ticking, a runnable
\* coroutine is eventually run, a finished task's callback is eventually
\* called.  Submission, the operator and an interruption of the service are not
\* forced.
FairSolo ==
  /\ SpecSolo
  /\ WF_vars(Tick)
  /\ \A id \in JobIds :
       /\ WF_vars(StartRunner(id))
       /\ WF_vars(FetchStage(id))
       /\ WF_vars(CallHandler(id))
       /\ WF_vars(ResumeHandler(id))
       /\ WF_vars(WakeRunner(id))
       /\ WF_vars(FinishRunner(id))
       /\ WF_vars(_task_done_callback(id))

\* The scheduler keeps ticking, every handler that was called returns or
\* raises, and the event loop runs every coroutine and callback that is
\* ready.
FairRun ==
  /\ SpecRun
  /\ WF_vars(Tick /\ now' = now)
  /\ \A id \in JobIds :
       /\ WF_vars(StartRunner(id))
       /\ WF_vars(FetchStage(id))
       /\ WF_vars(CallHandler(id))
       /\ WF_vars(ResumeHandler(id))
       /\ WF_vars(WakeRunner(id))
       /\ WF_vars(FinishRunner(id))
       /\ WF_vars(_task_done_callback(id))

\* The event loop is fair as in FairSolo; the store is not forced to fail
\* and answers again at some time (a tick that succeeds is not postponed
\* forever).
FairFaulty ==
  /\ SpecFaulty
  /\ WF_vars(Tick)
  /\ \A id \in JobIds :
       /\ WF_vars(StartRunner(id))
       /\ WF_vars(FetchStage(id))
       /\ WF_vars(CallHandler(id))
       /\ WF_vars(ResumeHandler(id))
       /\ WF_vars(WakeRunner(id))
       /\ WF_vars(FinishRunner(id))
       /\ WF_vars(_task_done_callback(id))

\* ------------------------------------------------------------ properties
StageIdx == 1..Len(stage_sequence)

\* persisted progress entry of the k-th stage of job id
Progress(id, k) == docs[id].stage_progress[stage_sequence[k]]

\* the step creates an asyncio task for job id
Spawns(id) == runner[id].pc # "new" /\ runner'[id].pc = "new"

\* the step is a handler invocation of job id
Invokes(id) == ncalls'[id] = ncalls[id] + 1

\* the step ends the runner of job id
Terminates(id) == runner[id].pc \notin {"none", "done"} /\ runner'[id].pc = "done"

\* the last stage of the sequence whose handler the runner has invoked
LastInvoked(inv) ==
  CHOOSE k \in StageIdx :
    /\ stage_sequence[k] \in inv
    /\ \A j \in StageIdx : stage_sequence[j] \in inv => j <= k

\* C1 - Sequence invariant: in every reachable state, a stage persisted as
\* completed has every earlier stage of the sequence persisted as completed.
C1_SequenceInvariant ==
  \A id \in created : \A k \in StageIdx : \A j \in 1..(k - 1) :
    Progress(id, k).status = "completed" => Progress(id, j).status = "completed"

\* a job that got past two stages and then had a stage fail until escalation
C1_Witness ==
  \E id \in created :
    /\ Progress(id, 1).status = "completed"
    /\ Progress(id, 2).status = "completed"
    /\ Progress(id, 3).status = "failed"
    /\ docs[id].manual_resume

\* C2 - Bounded retry: a stage handler is invoked at most max_retries times
\* in one runner invocation; a runner that ends with the stage of its last
\* handler invocation not completed has invoked that handler exactly
\* max_retries times and leaves status = failed, manual_resume = true; and
\* while manual_resume stays true no handler of the job is invoked.
C2_BoundedRetry ==
  /\ [](\A id \in JobIds : ncalls[id] <= max_retries)
  /\ [][\A id \in JobIds :
          /\ ( /\ Terminates(id)
               /\ invoked'[id] # {}
               /\ docs'[id].stage_progress[stage_sequence[LastInvoked(invoked'[id])]].status
                    # "completed" )
             => /\ ncalls'[id] = max_retries
                /\ docs'[id].status = "failed"
                /\ docs'[id].manual_resume
          /\ (docs[id].manual_resume /\ docs'[id].manual_resume) => ~Invokes(id)
       ]_vars

\* the download handler failed three times and the job was escalated
C2_Witness ==
  \E id \in created :
    /\ runner[id].pc = "done"
    /\ invoked[id] = {"downloading"}
    /\ ncalls[id] = max_retries
    /\ docs[id].status = "failed"
    /\ docs[id].manual_resume

\* C3 - Resume idempotence: every handler invocation of a runner is for a
\* stage that is not persisted as completed and whose earlier stages all
\* are (so the stages completed before the run are skipped and the first
\* invocation is for the stage after them), and no step changes the status
\* or the output_files of a stage persisted as completed.
C3_ResumeIdempotence ==
  [][\A id \in JobIds : \A k \in StageIdx :
       /\ (Invokes(id) /\ runner[id].i = k)
            => /\ Progress(id, k).status # "completed"
               /\ \A j \in 1..(k - 1) : Progress(id, j).status = "completed"
       /\ (id \in created /\ Progress(id, k).status = "completed")
            => /\ docs'[id].stage_progress[stage_sequence[k]].status = "completed"
               /\ docs'[id].stage_progress[stage_sequence[k]].output_files
                    = Progress(id, k).output_files
    ]_vars

\* a later runner resumed at transcribing without invoking the download handler
C3_Witness ==
  \E id \in created :
    /\ runner[id].pc = "sleep"
    /\ invoked[id] = {"transcribing"}
    /\ Progress(id, 1).status = "completed"

\* C4 - Concurrency cap: active_tasks never holds more than
\* max_concurrent_tasks runners.
C4_ConcurrencyCap == Len(active_tasks) <= max_concurrent_tasks

\* the cap is reached while another job is eligible and not in flight
C4_Witness ==
  /\ Len(active_tasks) = max_concurrent_tasks
  /\ \E id \in created \ InFlight : IsCandidate(TaskModel(id, docs[id]))

\* C5 - Single ownership: a runner is spawned for a job only when the job
\* has no runner and is not in active_tasks, and active_tasks holds a job
\* id at most once.
C5_SingleOwnership ==
  /\ [](Cardinality(InFlight) = Len(active_tasks))
  /\ [](\A id \in JobIds : runner[id].pc # "none" => id \in InFlight)
  /\ [][\A id \in JobIds :
          Spawns(id) => runner[id].pc = "none" /\ id \notin InFlight]_vars

\* a job in flight whose persisted status reads failed without manual_resume,
\* with a free slot
C5_Witness ==
  \E id \in InFlight :
    /\ runner[id].pc = "sleep"
    /\ docs[id].status = "failed"
    /\ ~docs[id].manual_resume
    /\ Len(active_tasks) < max_concurrent_tasks

\* C6 - Manual-resume exclusion: no step spawns a runner for a job whose
\* persisted manual_resume is true.
C6_ManualResumeExclusion ==
  [][\A id \in JobIds : docs[id].manual_resume => ~Spawns(id)]_vars

\* an escalated job that is eligible by status, not in flight, with a free slot
C6_Witness ==
  \E id \in created :
    /\ docs[id].manual_resume
    /\ docs[id].status = "failed"
    /\ runner[id].pc = "none"
    /\ id \notin InFlight
    /\ Len(active_tasks) < max_concurrent_tasks

\* C7 - manual_resume changes from false to true only in the step in which
\* a stage handler has failed max_retries times in one runner invocation,
\* and from true to false only by the operator.
C7_ManualResumeOnlyOnExhaustion ==
  [][\A id \in JobIds :
       /\ (~docs[id].manual_resume /\ docs'[id].manual_resume)
            => ncalls'[id] = max_retries
       /\ (docs[id].manual_resume /\ ~docs'[id].manual_resume)
            => OperatorResume(id)
    ]_vars

\* C8 - Zombie reset: a tick resets to pending every stage persisted as
\* processing whose started_at is older than ZOMBIE_TIMEOUT at the tick's
\* clock reading, and leaves a younger processing stage unchanged.
C8_ZombieReset ==
  [][Tick =>
       \A id \in created : \A s \in Stages :
         docs[id].stage_progress[s].status = "processing"
           => IF now' - docs[id].stage_progress[s].started_at > ZOMBIE_TIMEOUT
              THEN docs'[id].stage_progress[s].status = "pending"
              ELSE docs'[id].stage_progress[s] = docs[id].stage_progress[s]
    ]_vars

\* a job left behind by a dead runner: status processing, no runner, a
\* stage in processing for longer than ZOMBIE_TIMEOUT
StaleZombie(id) ==
  /\ id \in created
  /\ runner[id].pc = "none"
  /\ id \notin InFlight
  /\ docs[id].status = "processing"
  /\ \E s \in Stages :
       /\ docs[id].stage_progress[s].status = "processing"
       /\ now - docs[id].stage_progress[s].started_at > ZOMBIE_TIMEOUT

\* C9 - Zombie recovery liveness: a job left with status processing and a
\* stage in processing older than ZOMBIE_TIMEOUT is eventually picked up
\* by a new runner.
C9_ZombieRecovery ==
  \A id \in JobIds : StaleZombie(id) ~> (id \in InFlight)

\* C10 - Priority dispatch: when a tick spawns a runner for job b, every
\* job that is eligible, not in flight and of strictly higher priority
\* than b is spawned by the same tick.
C10_PriorityDispatch ==
  [][\A b \in JobIds : Spawns(b) =>
       \A a \in created \ InFlight :
         ( /\ IsCandidate(TaskModel(a, docs[a]))
           /\ docs[a].priority > docs[b].priority ) => Spawns(a)
    ]_vars

\* with one slot and two pending jobs the priority 9 job was spawned and
\* the priority 1 job was not
C10_Witness ==
  \E a, b \in created :
    /\ max_concurrent_tasks = 1
    /\ docs[a].priority = 9 /\ docs[b].priority = 1
    /\ runner[a].pc = "new" /\ docs[a].status = "pending"
    /\ docs[b].status = "pending" /\ b \notin InFlight

\* job-level status changes the orchestrator may make
AllowedStatusChange ==
  { << "pending", "processing" >>, << "processing", "completed" >>,
    << "processing", "failed" >>, << "failed", "processing" >> }

\* C11 - Job status transitions: every change of a job's persisted status
\* is pending -> processing, processing -> completed, processing -> failed
\* or failed -> processing with manual_resume false; a completed job never
\* changes status again and is never spawned again.
C11_StatusTransitions ==
  [][\A id \in created :
       /\ docs'[id].status # docs[id].status
            => /\ << docs[id].status, docs'[id].status >> \in AllowedStatusChange
               /\ docs[id].status = "failed" => ~docs[id].manual_resume
       /\ docs[id].status = "completed"
            => docs'[id].status = "completed" /\ ~Spawns(id)
    ]_vars

\* C12 - Retry then success: a runner that ends with every stage persisted
\* as completed, after whatever failed attempts below max_retries, ends with
\* status = completed and manual_resume = false; and an attempt that
\* succeeds leaves its stage persisted as completed.
C12_RetryThenSuccess ==
  [][\A id \in JobIds :
       /\ ( /\ Terminates(id)
            /\ \A s \in Stages : docs'[id].stage_progress[s].status = "completed" )
            => docs'[id].status = "completed" /\ ~docs'[id].manual_resume
       /\ \A k \in StageIdx :
            ( /\ runner[id].i = k
              /\ runner[id].pc \in {"call", "await"}
              /\ runner'[id].pc \in {"fetch", "finish"} )
            => docs'[id].stage_progress[stage_sequence[k]].status = "completed"
    ]_vars

\* the last stage succeeded at its third attempt and the job is completed
C12_Witness ==
  \E id \in created :
    /\ runner[id].pc = "done"
    /\ "subtitle_splitting" \in invoked[id]
    /\ ncalls[id] = max_retries
    /\ docs[id].status = "completed"
    /\ ~docs[id].manual_resume

\* C13 - Stop after exhaustion: a stage whose handler the runner invoked
\* and that is not persisted as completed is the last stage the runner
\* invoked, and the job's status is not completed.
C13_StopAfterExhaustion ==
  \A id \in created : \A k \in StageIdx :
    ( /\ stage_sequence[k] \in invoked[id]
      /\ Progress(id, k).status # "completed" )
    => /\ \A j \in StageIdx : j > k => stage_sequence[j] \notin invoked[id]
       /\ docs[id].status # "completed"

\* transcribing exhausted its attempts: translating was never invoked
C13_Witness ==
  \E id \in created :
    /\ runner[id].pc = "done"
    /\ "transcribing" \in invoked[id]
    /\ Progress(id, 2).status # "completed"
    /\ ncalls[id] = max_retries
    /\ docs[id].manual_resume

\* C14 - Strict stage order: a step that writes the progress entry of a
\* stage (processing at the start of its handler, then failed or
\* completed) is taken in a state where every earlier stage is persisted
\* as completed.
C14_StrictStageOrder ==
  [][\A id \in created : \A k \in StageIdx :
       Progress(id, k) # docs'[id].stage_progress[stage_sequence[k]]
         => \A j \in 1..(k - 1) : Progress(id, j).status = "completed"
    ]_vars

\* the translating handler has begun and is awaiting its request
C14_Witness ==
  \E id \in created :
    /\ runner[id].pc = "await"
    /\ runner[id].i = 3
    /\ Progress(id, 3).status = "processing"
    /\ Progress(id, 1).status = "completed"
    /\ Progress(id, 2).status = "completed"

\* C15 - Completion implies all stages done: a job persisted with status
\* completed has every stage of stage_sequence persisted as completed.
C15_CompletedMeansAllStages ==
  \A id \in created :
    docs[id].status = "completed"
      => \A k \in StageIdx : Progress(id, k).status = "completed"

\* a job completed by a runner that resumed after the first two stages
C15_Witness ==
  \E id \in created :
    /\ docs[id].status = "completed"
    /\ runner[id].pc = "done"
    /\ invoked[id] = {"translating", "subtitle_splitting"}

\* the step is the except Exception clause of the runner of job id
JobExceptionStep(id) ==
  /\ Terminates(id)
  /\ docs'[id].status = "failed"
  /\ ncalls'[id] < max_retries

\* C19 - Job-level failure is automatically retried: an exception outside
\* the retry loop leaves status = failed with the error recorded and
\* manual_resume false.
C19_JobFailureRetried ==
  [][\A id \in JobIds :
       JobExceptionStep(id)
         => /\ docs'[id].error # ""
            /\ ~docs'[id].manual_resume
    ]_vars

\* jobs the tick finds eligible that are not in flight
EligibleNotInFlight ==
  { id \in created \ InFlight : IsCandidate(TaskModel(id, docs[id])) }

\* the scheduler loop can run its next iteration
TickEnabled == cur = 0 /\ \A id \in JobIds : runner[id].pc # "new"

\* C18 - Slot filling: whenever a tick can run, its dispatch leaves
\* min(max_concurrent_tasks, in-flight jobs + eligible jobs not in flight)
\* runners in flight, whatever order list_tasks returns the documents in.
C18_SlotFilling ==
  TickEnabled =>
    \A order \in ListOrders :
      Len(active_tasks) + Len(Selected(list_tasks(order))) =
        Min(max_concurrent_tasks, Len(active_tasks) + Cardinality(EligibleNotInFlight))

\* C16 - Stop: once _cleanup has been called no runner is spawned, and the
\* call cancels every in-flight runner and leaves active_tasks empty.
C16_Stop ==
  /\ [][stop_requested => \A id \in JobIds : ~Spawns(id)]_vars
  /\ [][_cleanup =>
          /\ active_tasks' = << >>
          /\ \A id \in JobIds : ~NotDone(id)' ]_vars

\* the step cancels the runner of job id at a suspension point
Cancels(id) == NotDone(id) /\ runner'[id].pc = "none"

\* C17 - Cancellation leaves state as is: the step that cancels a runner
\* does not change the job's document; a stage whose handler was awaiting
\* stays persisted as processing.
C17_CancelWritesNothing ==
  [][\A id \in JobIds :
       Cancels(id)
         => /\ docs'[id] = docs[id]
            /\ runner[id].pc = "await"
                 => docs'[id].stage_progress[CurStage(id)].status = "processing"
    ]_vars

\* _cleanup cancelled the runner while its download was awaited
C17_Witness ==
  \E id \in created :
    /\ stop_requested
    /\ runner[id].pc = "none"
    /\ id \notin InFlight
    /\ docs[id].status = "processing"
    /\ Progress(id, 1).status = "processing"
    /\ ~docs[id].manual_resume

\* the step is a handler invocation of job id that ends in the job-level
\* except clause without having written the stage's entry
FailsFatally(id, k) ==
  /\ Terminates(id)
  /\ docs'[id].status = "failed"
  /\ docs'[id].error = "exception"
  /\ docs'[id].stage_progress = docs[id].stage_progress
  /\ ncalls'[id] = 1

CheckedBy(k) ==
  CASE k = 1 -> {}
    [] k = 2 -> {1}
    [] k = 3 -> {2}
    [] k = 4 -> {2, 3}

ExhaustionStep(id) ==
  /\ Terminates(id)
  /\ runner[id].attempt = max_retries
  /\ docs'[id].stage_progress[CurStage(id)].status # "completed"

\* C21 - Exhaustion is persisted at both levels: the step in which a stage
\* exhausts its max_retries attempts leaves the stage's entry failed with a
\* non-empty error and the job's error field set, whether the handler
\* raised or returned a failure.
C21_ExhaustionPersisted ==
  [][\A id \in JobIds :
       ExhaustionStep(id)
         => /\ docs'[id].stage_progress[CurStage(id)].status = "failed"
            /\ docs'[id].stage_progress[CurStage(id)].error # ""
            /\ docs'[id].error # ""
    ]_vars

\* C22 - Scheduler loop survives tick errors: the loop coroutine ends only
\* after a stop was requested; after an iteration that ended in the except
\* clause the loop runs a further iteration; and a job that is eligible and
\* not in flight after the error is dispatched by a later tick.
C22_LoopSurvivesTickErrors ==
  /\ [](loop = "ended" => stop_requested)
  /\ (loop = "backoff") ~> (loop = "running")
  /\ \A id \in JobIds :
       (loop = "backoff" /\ id \in EligibleNotInFlight) ~> (id \in InFlight)

\* list_tasks failed while a submitted job was waiting to be dispatched
C22_Witness ==
  /\ loop = "backoff"
  /\ \E id \in created :
       /\ id \in EligibleNotInFlight
       /\ docs[id].status = "pending"
       /\ runner[id].pc = "none"

\* the asyncio task of job id exists and has not finished
Alive(id) == runner[id].pc \notin {"none", "done"}

StaleStage(id, s, t) ==
  /\ docs[id].stage_progress[s].status = "processing"
  /\ t - docs[id].stage_progress[s].started_at > ZOMBIE_TIMEOUT

\* C24 - A zombie reset is not a failure: the tick that finds a stale stage
\* sets that stage's entry to pending with an informational error and
\* leaves the job's status, manual_resume and error and the entries of the
\* other stages as they were.
C24_ZombieResetIsNotFailure ==
  [][Tick =>
       \A id \in created : \A s \in Stages :
         StaleStage(id, s, now')
           => /\ docs'[id].stage_progress[s].status = "pending"
              /\ docs'[id].stage_progress[s].error # ""
              /\ docs'[id].status = docs[id].status
              /\ docs'[id].manual_resume = docs[id].manual_resume
              /\ docs'[id].error = docs[id].error
              /\ \A q \in Stages \ {s} :
                   docs'[id].stage_progress[q] = docs[id].stage_progress[q]
    ]_vars

\* update_stage_status applied to document d for stage s leaves the other
\* stages' entries and the job's status, priority and manual_resume alone
StageUpdateFrame(d, s) ==
  \A st \in StageStatus : \A outputs \in {{}, Outputs(s)} :
    LET u == update_stage_status(d, s, st, "", outputs, now)
    IN /\ u.status = d.status
       /\ u.priority = d.priority
       /\ u.manual_resume = d.manual_resume
       /\ \A q \in Stages \ {s} : u.stage_progress[q] = d.stage_progress[q]

\* update_task_status applied to document d leaves every stage entry alone
StatusUpdateFrame(d) ==
  \A st \in TaskStatus : \A e \in {"", "exception"} :
    update_task_status(d, st, e, now).stage_progress = d.stage_progress

\* the patch the zombie sweep asks for at stage s: status pending with an
\* informational error
SweepWrite(d, s) == update_stage_status(d, s, "pending", "zombie stage reset", {}, now)

\* the sweep's write to stage s of document d and a runner's write to
\* another field of d (the job's status, or the entry of another stage)
\* give the same document in either order
UpdatesCommute(d) ==
  \A s \in Stages :
    /\ \A js \in {"processing", "completed", "failed"} :
         update_task_status(SweepWrite(d, s), js, "", now)
           = SweepWrite(update_task_status(d, js, "", now), s)
    /\ \A q \in Stages \ {s} : \A qt \in {"processing", "completed", "failed"} :
         update_stage_status(SweepWrite(d, s), q, qt, "", {}, now)
           = SweepWrite(update_stage_status(d, q, qt, "", {}, now), s)

\* C25 - Targeted atomic updates: on every document the program reaches, a
\* stage-status update changes only that stage's entry (and updated_at), a
\* job-status update changes no stage entry, and a sweep write commutes
\* with a runner's write to another field; every step changes the document of at most one job, and
\* a step that writes the entry of one stage leaves the job's other stage
\* entries and its priority unchanged.
C25_TargetedUpdates ==
  /\ [](\A id \in created :
          /\ \A s \in Stages : StageUpdateFrame(docs[id], s)
          /\ StatusUpdateFrame(docs[id])
          /\ UpdatesCommute(docs[id]))
  /\ [][\A a, b \in created :
          (a # b /\ docs'[a] # docs[a]) => docs'[b] = docs[b]]_vars
  /\ [][\A id \in created : \A s \in Stages :
          docs'[id].stage_progress[s] # docs[id].stage_progress[s]
            => /\ docs'[id].priority = docs[id].priority
               /\ \A q \in Stages \ {s} :
                    docs'[id].stage_progress[q] = docs[id].stage_progress[q]
       ]_vars

\* two runners are in flight at once, one at its third stage with two
\* completed stages behind it, the other at its first stage
C25_Witness ==
  \E a, b \in created :
    /\ a # b
    /\ runner[a].pc = "await" /\ runner[a].i = 3
    /\ Progress(a, 1).status = "completed"
    /\ Progress(a, 2).status = "completed"
    /\ Progress(a, 3).status = "processing"
    /\ runner[b].pc = "await" /\ runner[b].i = 1
    /\ Progress(b, 1).status = "processing"

\* C26 - Output durability: a stage entry has output_files only while its
\* status is completed, and no step (attempts, failures and retries of
\* later stages, in this or a later runner invocation) changes the
\* output_files of a stage persisted as completed.
C26_OutputDurability ==
  /\ [](\A id \in created : \A k \in StageIdx :
          Progress(id, k).output_files # {}
            => /\ Progress(id, k).status = "completed"
               /\ Progress(id, k).output_files = Outputs(stage_sequence[k]))
  /\ [][\A id \in created : \A j \in StageIdx :
          Progress(id, j).status = "completed"
            => docs'[id].stage_progress[stage_sequence[j]].output_files
                 = Progress(id, j).output_files
       ]_vars

\* a later runner invocation has failed transcribing twice while the
\* download's output files are still those of the earlier invocation
C26_Witness ==
  \E id \in created :
    /\ runner[id].pc = "sleep"
    /\ invoked[id] = {"transcribing"}
    /\ ncalls[id] = 2
    /\ Progress(id, 2).status = "failed"
    /\ Progress(id, 1).status = "completed"
    /\ Progress(id, 1).output_files = Outputs("downloading")

\* C27 - Eligibility filter: the candidate filter accepts a task exactly
\* when its status is pending or failed and manual_resume is false, for
\* every status a document can hold; and a step spawns a runner only for a
\* job persisted (and so fetched by that tick) as pending or failed with
\* manual_resume false.
C27_EligibilityFilter ==
  /\ [](\A st \in TaskStatus : \A m \in BOOLEAN :
          IsCandidate([ NoTask EXCEPT !.status = st, !.manual_resume = m ])
            <=> (st \in {"pending", "failed"} /\ ~m))
  /\ [][\A id \in JobIds :
          Spawns(id) => /\ docs[id].status \in {"pending", "failed"}
                        /\ ~docs[id].manual_resume
       ]_vars

\* a job left in processing by an interrupted service, with no runner and
\* a free slot, while the scheduler has ticked past its last write
C27_Witness ==
  \E id \in created :
    /\ docs[id].status = "processing"
    /\ ~docs[id].manual_resume
    /\ runner[id].pc = "none"
    /\ active_tasks = << >>
    /\ cur = 0
    /\ now > docs[id].updated_at

\* C28 - Stage start is persisted before the work: while a handler is
\* awaiting its stage work the stage is persisted as processing with
\* started_at set; the step that begins the work stamps started_at with the
\* clock reading of the write; and a stage persisted as completed or
\* failed has completed_at set.
C28_StartPersistedBeforeWork ==
  /\ [](\A id \in created :
          runner[id].pc = "await"
            => /\ docs[id].stage_progress[CurStage(id)].status = "processing"
               /\ docs[id].stage_progress[CurStage(id)].started_at # None)
  /\ [][\A id \in JobIds :
          (runner[id].pc = "call" /\ runner'[id].pc = "await")
            => docs'[id].stage_progress[CurStage(id)].started_at = now
       ]_vars
  /\ [](\A id \in created : \A k \in StageIdx :
          Progress(id, k).status \in {"completed", "failed"}
            => Progress(id, k).completed_at # None)

\* the second attempt of translating is awaiting its request, after two
\* completed stages and a failed first attempt
C28_Witness ==
  \E id \in created :
    /\ runner[id].pc = "await"
    /\ runner[id].i = 3
    /\ runner[id].attempt = 2
    /\ Progress(id, 3).started_at # None
    /\ Progress(id, 1).completed_at # None
    /\ Progress(id, 2).completed_at # None

\* C29 - Job timestamps: once a stage of the job has been started the
\* job's timestamps.started_at is set and it never changes afterwards, and
\* a job persisted as completed or failed has timestamps.completed_at set.
C29_JobTimestamps ==
  /\ [](\A id \in created :
          (\E s \in Stages : docs[id].stage_progress[s] # NoEntry)
            => docs[id].timestamps.started_at # None)
  /\ [][\A id \in created :
          docs[id].timestamps.started_at # None
            => docs'[id].timestamps.started_at = docs[id].timestamps.started_at
       ]_vars
  /\ [](\A id \in created :
          docs[id].status \in {"completed", "failed"}
            => docs[id].timestamps.completed_at # None)

\* C30 - Identity is preserved: no step changes the video_url or the
\* priority of a stored job, a runner works on the document whose id it was
\* spawned for, and the set of stored ids changes only by a submission,
\* which adds one id and removes none.
C30_IdentityPreserved ==
  /\ [][\A id \in created :
          /\ docs'[id].video_url = docs[id].video_url
          /\ docs'[id].priority = docs[id].priority]_vars
  /\ [](\A id \in JobIds : Alive(id) => runner[id].task.id = id)
  /\ [][created' # created
          => /\ created \subseteq created'
             /\ Cardinality(created') = Cardinality(created) + 1
             /\ \E u \in Urls : \E p \in Priorities : create_task(u, p)]_vars

\* two jobs submitted with different URLs and priorities, one run to
\* completion and the other escalated
C30_Witness ==
  \E a, b \in created :
    /\ docs[a].video_url = "url_a" /\ docs[a].priority = 9
    /\ docs[b].video_url = "url_b" /\ docs[b].priority = 1
    /\ docs[a].status = "completed"
    /\ docs[b].status = "failed" /\ docs[b].manual_resume

\* C31 - Completed stage is absorbing: no step changes the entry of a
\* stage persisted as completed; in particular a tick taken at a clock
\* reading at which another stage of the job is stale leaves it as it is.
C31_CompletedIsAbsorbing ==
  [][\A id \in created : \A k \in StageIdx :
       Progress(id, k).status = "completed"
         => docs'[id].stage_progress[stage_sequence[k]] = Progress(id, k)
    ]_vars

\* the scheduler has ticked more than ZOMBIE_TIMEOUT after the download was
\* completed, while the translating stage has been processing for longer
\* than ZOMBIE_TIMEOUT
C31_Witness ==
  \E id \in created :
    /\ Progress(id, 1).status = "completed"
    /\ now - Progress(id, 1).completed_at > ZOMBIE_TIMEOUT
    /\ Progress(id, 2).status = "completed"
    /\ StaleStage(id, "translating", now)

C33_OwnershipPersistedFirst ==
  /\ [][\A id \in JobIds : Invokes(id) => docs[id].status = "processing"]_vars
  /\ [](\A id \in created :
          runner[id].pc = "await"
            => docs[id].status = "processing" /\ id \in InFlight)

\* C34 - Per-stage retry budget: the step that begins the attempts of a
\* stage starts the attempt counter at 1 whatever the attempts of the
\* stage before it; the n-th invocation of a stage's handler in a runner
\* invocation is attempt n; no handler is invoked more than max_retries
\* times; and a stage is given up only after max_retries invocations.
C34_PerStageRetryBudget ==
  /\ [][\A id \in JobIds :
          (runner[id].pc = "fetch" /\ runner'[id].pc = "call")
            => runner'[id].attempt = 1 /\ ncalls'[id] = 0]_vars
  /\ [][\A id \in JobIds : Invokes(id) => ncalls'[id] = runner[id].attempt]_vars
  /\ [](\A id \in JobIds :
          ncalls[id] <= max_retries /\ runner[id].attempt <= max_retries)
  /\ [][\A id \in JobIds : ExhaustionStep(id) => ncalls'[id] = max_retries]_vars

\* the download succeeded at its last attempt and the runner is at the top
\* of the stage loop for transcribing
C34_Witness ==
  \E id \in created :
    /\ runner[id].pc = "fetch"
    /\ runner[id].i = 2
    /\ runner[id].attempt = max_retries
    /\ ncalls[id] = max_retries
    /\ Progress(id, 1).status = "completed"

\* a job that has reached the end of its processing
Terminal(id) ==
  \/ docs[id].status = "completed"
  \/ docs[id].status = "failed" /\ docs[id].manual_resume

\* C35 - Every job terminates: with a finite set of submitted jobs, a
\* scheduler that keeps ticking and handlers that always return, every
\* pending job that is not flagged for manual resume is eventually in
\* flight, every submitted job eventually is completed or is failed with
\* manual_resume set, and it then stays so.
C35_EveryJobTerminates ==
  /\ \A id \in JobIds :
       (id \in created /\ docs[id].status = "pending" /\ ~docs[id].manual_resume)
         ~> (id \in InFlight)
  /\ \A id \in JobIds : (id \in created) ~> [](Terminal(id) /\ ~Alive(id))

====
